---- MODULE Spec2Model ----
(***************************************************************************)
(* CGASSEF web prototype: the impact-aggregation and derived-metrics       *)
(* engine and the pages that drive it (create, visualize, compare,         *)
(* export).                                                                *)
(*                                                                         *)
(* One React page is mounted at a time (react-router); `page` names it.    *)
(* Leaving a page unmounts it: its state is dropped and its effects are    *)
(* cleaned up.  A useEffect is run together with the state change that     *)
(* triggers it (cleanup of the previous run first).                        *)
(*                                                                         *)
(* CO2 quantities are fixed-point integers (tenths of a kg); quotients of  *)
(* the comparison engine are exact fractions.                              *)
(***************************************************************************)
EXTENDS Integers, Sequences, FiniteSets, TLC

VARIABLES
    page,                 \* the mounted route ("home", "create", ...), or "crashed"
    \* ---- VisualizeServicePage
    vis_serviceData,      \* useState serviceData
    vis_error,            \* useState error
    dynamicStageValues,   \* useState dynamicStageValues
    detailedStageData,    \* useState detailedStageData
    opVsEmbChartData,     \* useState opVsEmbChartData
    intervals,            \* running setInterval timers, each with the serviceData of its closure
    vis_reads,            \* handleFileChange calls suspended at `await file.text()`
    vis_selected,         \* the files held by the page's file input (its last selection)
    ticks,                \* ticks fired since the simulation effect last ran
    timerCount,           \* setInterval calls since the page was mounted
    \* ---- CompareServicesPage
    uploadedServices,     \* useState uploadedServices
    cmp_error,            \* useState error
    inferenceCounts,      \* useState formState.inferenceCounts
    calculatedPerServiceMetrics,
    calculatedRadarChartData,
    displayPerServiceMetrics,
    displayRadarChartData,
    isChartGenerated,
    cmp_events,           \* user events handled since the page was mounted
    uploads,              \* handleFilesChange calls suspended at `await file.text()`
    \* ---- ExportServiceDataPage
    exp_serviceData,      \* useState serviceData
    exp_fileName,         \* useState fileName
    exp_error,            \* useState error
    exp_reads,            \* handleFileChange calls suspended at `await file.text()`
    downloads,            \* the CSV files downloaded since the page was mounted
    \* ---- CreateServicePage
    state,                \* useReducer state of the wizard
    wiz_reads,            \* step 0 handleFileChange calls suspended at `await file.text()`
    wiz_fileName,         \* Step4_ExportView: useState fileName
    jsonStringToExport,   \* Step4_ExportView: useState jsonStringToExport
    wiz_download          \* the file the last handleDownload handed to the browser

visVars == <<vis_serviceData, vis_error, dynamicStageValues, detailedStageData,
             opVsEmbChartData, vis_reads, vis_selected, ticks, timerCount>>

cmpVars == <<uploadedServices, cmp_error, inferenceCounts, calculatedPerServiceMetrics,
             calculatedRadarChartData, displayPerServiceMetrics, displayRadarChartData,
             isChartGenerated, uploads, cmp_events>>

expVars == <<exp_serviceData, exp_fileName, exp_error, exp_reads, downloads>>

wizVars == <<state, wiz_reads, wiz_fileName, jsonStringToExport, wiz_download>>

vars == <<page, visVars, intervals, cmpVars, expVars, wizVars>>

-----------------------------------------------------------------------------
(* Bounds of the model *)

MaxTicks == 2
MaxTimers == 2
MaxReads == 2
MaxBatch == 2
MaxUploads == 1
MaxEvents == 3
MaxDownloads == 1
MaxWizReads == 1

-----------------------------------------------------------------------------
(* JavaScript values that reach the arithmetic: a number, NaN or undefined *)

NULL == [null |-> TRUE]

Num(n) == [t |-> "number", v |-> n]
NaN == [t |-> "NaN"]
Undefined == [t |-> "undefined"]

IsNum(x) == x.t = "number"

\* a + b on numbers/undefined/NaN
JsAdd(a, b) == IF IsNum(a) /\ IsNum(b) THEN Num(a.v + b.v) ELSE NaN

\* Number(x)
JsNumber(x) == IF IsNum(x) THEN x ELSE NaN

\* x || 0
JsOrZero(x) == IF IsNum(x) /\ x.v # 0 THEN x ELSE Num(0)

\* x > 0
JsGtZero(x) == IsNum(x) /\ x.v > 0

\* x >= 0
JsGeZero(x) == IsNum(x) /\ x.v >= 0

\* obj.field
JsGet(obj, field) == IF field \in DOMAIN obj THEN obj[field] ELSE Undefined

-----------------------------------------------------------------------------
(* src/types/aiService *)

lifecycleStageKeys ==
    << "businessUseCaseGeneration", "dataHandling", "modelArchitectureExploration",
       "modelTraining", "modelOperation", "modelEndOfLife",
       "materialExtraction", "hardwareManufacturing", "hardwareTransport",
       "AISystemInstallation" >>

Range(s) == {s[i] : i \in DOMAIN s}

NoneConfig == [impactCalculationMode |-> "none"]
ApproximationConfig(n) == [impactCalculationMode |-> "approximation", co2EqInKg |-> Num(n)]
DynamicConfig(url, tok) == [impactCalculationMode |-> "dynamic", httpApiUrl |-> url, token |-> tok]

createDefaultCycleStages == [k \in Range(lifecycleStageKeys) |-> NoneConfig]

-----------------------------------------------------------------------------
(* The files a user can pick.  A file's text either fails JSON.parse or    *)
(* parses to `value`.                                                      *)

\* service A: 1.0 kg of model training
RecA ==
    [serviceId |-> "svcA", name |-> "Alpha", description |-> "first",
     cycleStages |-> [createDefaultCycleStages EXCEPT
        !["modelTraining"] = ApproximationConfig(10)]]

\* service B: 3.0 kg operational, 1.0 kg embodied
RecB ==
    [serviceId |-> "svcB", name |-> "Beta", description |-> "second",
     cycleStages |-> [createDefaultCycleStages EXCEPT
        !["modelTraining"] = ApproximationConfig(20),
        !["modelOperation"] = ApproximationConfig(10),
        !["AISystemInstallation"] = ApproximationConfig(10)]]

\* service A again, edited by hand: a negative estimate and an approximation
\* stage whose co2EqInKg is missing
RecA2 ==
    [serviceId |-> "svcA", name |-> "Alpha v2", description |-> "first",
     cycleStages |-> [createDefaultCycleStages EXCEPT
        !["modelOperation"] = ApproximationConfig(-5),
        !["dataHandling"] = [impactCalculationMode |-> "approximation"]]]

\* service D: two dynamic stages (one software, one hardware) and one estimate
RecD ==
    [serviceId |-> "svcD", name |-> "Delta", description |-> "live",
     cycleStages |-> [createDefaultCycleStages EXCEPT
        !["modelTraining"] = ApproximationConfig(12),
        !["modelOperation"] = DynamicConfig("https://api.example.com/op", "tok-op"),
        !["hardwareTransport"] = DynamicConfig("https://api.example.com/hw", "tok-hw")]]

\* a record with one canonical stage only, and one stage outside the canon
RecPartial ==
    [serviceId |-> "svcB", name |-> "Beta (partial)", description |-> "",
     cycleStages |-> [k \in {"modelTraining", "bogusStage"} |->
        IF k = "modelTraining" THEN ApproximationConfig(5) ELSE ApproximationConfig(7)]]

\* an object without a name
RecNoName ==
    [serviceId |-> "svcB", description |-> "second",
     cycleStages |-> createDefaultCycleStages]

FileText ==
    [f \in {"a.json", "b.json", "a2.json", "d.json", "partial.json", "noname.json", "bad.json"} |->
        CASE f = "a.json" -> [parses |-> TRUE, value |-> RecA]
          [] f = "b.json" -> [parses |-> TRUE, value |-> RecB]
          [] f = "a2.json" -> [parses |-> TRUE, value |-> RecA2]
          [] f = "d.json" -> [parses |-> TRUE, value |-> RecD]
          [] f = "partial.json" -> [parses |-> TRUE, value |-> RecPartial]
          [] f = "noname.json" -> [parses |-> TRUE, value |-> RecNoName]
          [] f = "bad.json" -> [parses |-> FALSE]]

Files == DOMAIN FileText

\* the message of the SyntaxError JSON.parse throws
SyntaxErrorMessage == "Unexpected token"

\* try { JSON.parse(rawJson) }: the parsed value, or the Error thrown
JSONParse(text) ==
    IF text.parses THEN [ok |-> TRUE, value |-> text.value]
    ELSE [ok |-> FALSE, message |-> SyntaxErrorMessage]

\* !parsedConfig.serviceId || !parsedConfig.name || !parsedConfig.cycleStages
Truthy(obj, field) == field \in DOMAIN obj /\ obj[field] # ""
InvalidStructure(parsedConfig) ==
    \/ ~Truthy(parsedConfig, "serviceId")
    \/ ~Truthy(parsedConfig, "name")
    \/ "cycleStages" \notin DOMAIN parsedConfig

-----------------------------------------------------------------------------
(* VisualizeServicePage *)

softwareCycleKeys ==
    << "businessUseCaseGeneration", "dataHandling", "modelArchitectureExploration",
       "modelTraining", "modelOperation", "modelEndOfLife" >>

\* the hardware stages with the installation stage forgotten
hardwareCycleKeys_Short ==
    << "materialExtraction", "hardwareManufacturing", "hardwareTransport" >>

hardwareCycleKeys ==
    << "materialExtraction", "hardwareManufacturing", "hardwareTransport",
       "AISystemInstallation" >>

\* increments of a simulation that may also go down
DynIncrements_Signed == {-1, 5}

\* Math.random() * 5 + 1 and Math.random() * 0.5 + 0.1, in tenths of a kg
DynInitValues == {10, 59}
DynIncrements == {1, 5}

getCO2Value(stageKey, config, currentDynamicValues) ==
    IF config.impactCalculationMode = "approximation"
    THEN JsGet(config, "co2EqInKg")
    ELSE IF config.impactCalculationMode = "dynamic"
    THEN (IF stageKey \in DOMAIN currentDynamicValues
          THEN Num(currentDynamicValues[stageKey]) ELSE Num(0))
    ELSE Num(0)

\* keys.forEach(k => { if (config) sum += getCO2Value(k, config, dyn) }), from 0
SumCO2(keys, service, dyn) ==
    LET cs == service.cycleStages
        f[i \in 0..Len(keys)] ==
            IF i = 0 THEN Num(0)
            ELSE IF keys[i] \in DOMAIN cs
                 THEN JsAdd(f[i - 1], getCO2Value(keys[i], cs[keys[i]], dyn))
                 ELSE f[i - 1]
    IN f[Len(keys)]

\* the header total, computed on every render
totalCO2(service, dyn) == SumCO2(lifecycleStageKeys, service, dyn)

operationalEmissions(service, dyn) == SumCO2(softwareCycleKeys, service, dyn)
embodiedEmissions(service, dyn) == SumCO2(hardwareCycleKeys, service, dyn)

\* the stages of `service` in dynamic mode
DynamicStages(service) ==
    {k \in Range(lifecycleStageKeys) :
        k \in DOMAIN service.cycleStages
        /\ service.cycleStages[k].impactCalculationMode = "dynamic"}

\* newDetailedData: one entry per stage with co2Value > 0, colours cycling 1..10
NewDetailedData(service, dyn) ==
    LET cs == service.cycleStages
        f[i \in 0..Len(lifecycleStageKeys)] ==
            IF i = 0 THEN <<>>
            ELSE LET k == lifecycleStageKeys[i]
                     co2Value == IF k \in DOMAIN cs THEN getCO2Value(k, cs[k], dyn) ELSE Num(0)
                     idx == (Len(f[i - 1]) % 10) + 1
                 IN IF k \in DOMAIN cs /\ JsGtZero(co2Value)
                    THEN Append(f[i - 1], [stage |-> k, co2 |-> co2Value, fill |-> idx])
                    ELSE f[i - 1]
    IN f[Len(lifecycleStageKeys)]

\* newOpVsEmbData
NewOpVsEmbData(service, dyn) ==
    LET op == operationalEmissions(service, dyn)
        emb == embodiedEmissions(service, dyn)
        isZero(x) == IsNum(x) /\ x.v = 0
    IN (IF JsGtZero(op) \/ isZero(emb)
        THEN <<[name |-> "Operational Emissions", value |-> op, fill |-> 1]>> ELSE <<>>)
       \o
       (IF JsGtZero(emb) \/ isZero(op)
        THEN <<[name |-> "Embodied Emissions", value |-> emb, fill |-> 2]>> ELSE <<>>)

\* a catch block that swallows the error
LoadError_Swallowed(parsed) == NULL

\* catch (e): setError(`Failed to load configuration: ${errorMessage}`)
LoadError(parsed) ==
    [message |-> "Failed to load configuration: " \o
        (IF parsed.ok THEN "Invalid or incomplete service configuration file."
         ELSE parsed.message)]

\* an effect without cleanup: the timers keep running
ClearInterval_Leak(running) == running

\* return () => clearInterval(intervalId): the timers left running
ClearInterval(running) == <<>>

\* the effects with a simulation effect that returns early, without
\* setDynamicStageValues({}), when serviceData is null
VisEffects_KeepsValues(service, init) ==
    IF service = NULL
    THEN /\ dynamicStageValues' = dynamicStageValues
         /\ intervals' = ClearInterval(intervals)
         /\ detailedStageData' = <<>>
         /\ opVsEmbChartData' = <<>>
         /\ ticks' = 0
         /\ UNCHANGED timerCount
    ELSE /\ dynamicStageValues' = init
         /\ IF DynamicStages(service) # {}
            THEN /\ timerCount < MaxTimers
                 /\ timerCount' = timerCount + 1
                 /\ intervals' = ClearInterval(intervals)
                        \o <<[intervalId |-> timerCount + 1, serviceData |-> service]>>
            ELSE /\ intervals' = ClearInterval(intervals)
                 /\ UNCHANGED timerCount
         /\ detailedStageData' = NewDetailedData(service, init)
         /\ opVsEmbChartData' = NewOpVsEmbData(service, init)
         /\ ticks' = 0

\* The effects of the page after serviceData became `service` (null or a record)
\* with `init` the random starting values: the simulation effect (cleanup of its
\* previous run, new values, new timer) and then the chart-data effect.
VisEffects(service, init) ==
    IF service = NULL
    THEN /\ dynamicStageValues' = <<>>
         /\ intervals' = ClearInterval(intervals)
         /\ detailedStageData' = <<>>
         /\ opVsEmbChartData' = <<>>
         /\ ticks' = 0
         /\ UNCHANGED timerCount
    ELSE /\ dynamicStageValues' = init
         /\ IF DynamicStages(service) # {}
            THEN /\ timerCount < MaxTimers
                 /\ timerCount' = timerCount + 1
                 /\ intervals' = ClearInterval(intervals)
                        \o <<[intervalId |-> timerCount + 1, serviceData |-> service]>>
            ELSE /\ intervals' = ClearInterval(intervals)
                 /\ UNCHANGED timerCount
         /\ detailedStageData' = NewDetailedData(service, init)
         /\ opVsEmbChartData' = NewOpVsEmbData(service, init)
         /\ ticks' = 0

VisInit ==
    /\ vis_serviceData = NULL
    /\ vis_error = NULL
    /\ dynamicStageValues = <<>>
    /\ detailedStageData = <<>>
    /\ opVsEmbChartData = <<>>
    /\ vis_reads = <<>>
    /\ vis_selected = <<>>
    /\ ticks = 0
    /\ timerCount = 0

\* handleFileChange up to its await: error and serviceData are reset, the effects
\* run for serviceData = null, and the read of the chosen file (if any) starts
VisHandleFileChange(files) ==
    /\ page = "visualize"
    /\ Len(vis_reads) + Len(files) <= MaxReads
    /\ vis_error' = NULL
    /\ vis_serviceData' = NULL
    /\ VisEffects(NULL, <<>>)
    /\ vis_reads' = vis_reads \o files
    /\ vis_selected' = files
    /\ UNCHANGED <<page, wizVars, cmpVars, expVars>>

\* handleFileChange after its await, for the i-th suspended call
VisFileRead(i) ==
    /\ page = "visualize"
    /\ i \in DOMAIN vis_reads
    /\ vis_reads' = [j \in 1..(Len(vis_reads) - 1) |->
                        IF j < i THEN vis_reads[j] ELSE vis_reads[j + 1]]
    /\ LET parsed == JSONParse(FileText[vis_reads[i]])
       IN IF parsed.ok /\ ~InvalidStructure(parsed.value)
          THEN /\ vis_serviceData' = parsed.value
               /\ \E init \in [DynamicStages(parsed.value) -> DynInitValues] :
                     VisEffects(parsed.value, init)
               /\ UNCHANGED vis_error
          ELSE /\ vis_error' = LoadError(parsed)
               /\ UNCHANGED <<vis_serviceData, dynamicStageValues, detailedStageData,
                              opVsEmbChartData, intervals, ticks, timerCount>>
    /\ UNCHANGED <<page, wizVars, vis_selected, cmpVars, expVars>>

\* one firing of a running timer: the functional update of dynamicStageValues
\* with the serviceData of the timer's closure, then the chart-data effect
VisTick(t) ==
    /\ page = "visualize"
    /\ t \in DOMAIN intervals
    /\ ticks < MaxTicks
    /\ \E inc \in [DynamicStages(intervals[t].serviceData) -> DynIncrements] :
          LET prev == dynamicStageValues
              newValues == [k \in DOMAIN prev |->
                  IF k \in DynamicStages(intervals[t].serviceData) THEN prev[k] + inc[k] ELSE prev[k]]
          IN /\ dynamicStageValues' = newValues
             /\ IF vis_serviceData = NULL
                THEN UNCHANGED <<detailedStageData, opVsEmbChartData>>
                ELSE /\ detailedStageData' = NewDetailedData(vis_serviceData, newValues)
                     /\ opVsEmbChartData' = NewOpVsEmbData(vis_serviceData, newValues)
    /\ ticks' = ticks + 1
    /\ UNCHANGED <<page, wizVars, vis_serviceData, vis_error, vis_reads, vis_selected, intervals,
                   timerCount, cmpVars, expVars>>

-----------------------------------------------------------------------------
(* Exact fractions n/d, d > 0, in lowest terms *)

RECURSIVE GCD(_, _)
GCD(a, b) == IF b = 0 THEN a ELSE GCD(b, a % b)

Abs(x) == IF x < 0 THEN -x ELSE x

Frac(n, d) ==
    LET g == GCD(Abs(n), Abs(d))
        s == IF d < 0 THEN -1 ELSE 1
    IN [n |-> s * (n \div g), d |-> s * (d \div g)]

FracOfInt(n) == [n |-> n, d |-> 1]
FracGt(a, b) == a.n * b.d > b.n * a.d
FracDiv(a, b) == Frac(a.n * b.d, a.d * b.n)
FracMul(a, b) == Frac(a.n * b.n, a.d * b.d)

-----------------------------------------------------------------------------
(* CompareServicesPage *)

DEFAULT_INFERENCE_COUNT == 1000

calculateStaticCO2(service, stageKey) ==
    LET cs == service.cycleStages
    IN IF stageKey \in DOMAIN cs /\ cs[stageKey].impactCalculationMode = "approximation"
       THEN JsOrZero(JsNumber(JsGet(cs[stageKey], "co2EqInKg"))).v
       ELSE 0

radarDimensions ==
    << [key |-> "inferenceCount", label |-> "Inference Count"],
       [key |-> "avgEmbodiedPerInference", label |-> "Avg. Embodied / Inf."],
       [key |-> "avgOperationalPerInference", label |-> "Avg. Operational / Inf."],
       [key |-> "avgTotalPerInference", label |-> "Avg. Total / Inf."],
       [key |-> "totalEmbodiedImpact", label |-> "Total Embodied"],
       [key |-> "totalOperationalImpact", label |-> "Total Operational"],
       [key |-> "totalImpact", label |-> "Total Impact"] >>

\* keys.forEach(key => impact += calculateStaticCO2(service, key)), from 0
SumStaticCO2(keys, service) ==
    LET f[i \in 0..Len(keys)] ==
            IF i = 0 THEN 0 ELSE f[i - 1] + calculateStaticCO2(service, keys[i])
    IN f[Len(keys)]

\* formState.inferenceCounts[service.serviceId] || DEFAULT_INFERENCE_COUNT
TotalRequests(counts, serviceId) ==
    IF serviceId \in DOMAIN counts /\ counts[serviceId] # 0
    THEN counts[serviceId] ELSE DEFAULT_INFERENCE_COUNT

\* a quotient that always divides by the default count
PerInference_IgnoresCount(impact, totalRequests) == Frac(impact, DEFAULT_INFERENCE_COUNT)

\* totalRequests > 0 ? impact / totalRequests : 0
PerInference(impact, totalRequests) ==
    IF totalRequests > 0 THEN Frac(impact, totalRequests) ELSE FracOfInt(0)

\* a palette index that never wraps around
ColorIndex_NoCycle(index) == index + 1

\* `hsl(var(--chart-${(index % 5) + 1}))`: the number of the palette colour
ColorIndex(index) == (index % 5) + 1

\* Step 1: the absolute metrics of the service at (0-based) position index
ServiceRadarMetrics(service, index, counts) ==
    LET totalRequests == TotalRequests(counts, service.serviceId)
        embodiedImpact == SumStaticCO2(hardwareCycleKeys, service)
        operationalImpact == SumStaticCO2(softwareCycleKeys, service)
        totalImpact == embodiedImpact + operationalImpact
    IN [serviceId |-> service.serviceId, name |-> service.name,
        color |-> ColorIndex(index),
        inferenceCount |-> FracOfInt(totalRequests),
        avgEmbodiedPerInference |-> PerInference(embodiedImpact, totalRequests),
        avgOperationalPerInference |-> PerInference(operationalImpact, totalRequests),
        avgTotalPerInference |-> PerInference(totalImpact, totalRequests),
        totalEmbodiedImpact |-> FracOfInt(embodiedImpact),
        totalOperationalImpact |-> FracOfInt(operationalImpact),
        totalImpact |-> FracOfInt(totalImpact)]

NewPerServiceMetrics(services, counts) ==
    [i \in 1..Len(services) |-> ServiceRadarMetrics(services[i], i - 1, counts)]

\* Step 2 without the substitution of a maximum that is not positive
MaxValueOfDimension_NoSubstitute(metrics, key) ==
    LET f[i \in 0..Len(metrics)] ==
            IF i = 0 THEN FracOfInt(0)
            ELSE IF FracGt(metrics[i][key], f[i - 1]) THEN metrics[i][key] ELSE f[i - 1]
    IN f[Len(metrics)]

\* Step 2: the maximum of a dimension, 1 when it is not positive (the number 1
\* is a count for inferenceCount and 1 kg, ten tenths, for the other dimensions)
MaxValueOfDimension(metrics, key) ==
    LET f[i \in 0..Len(metrics)] ==
            IF i = 0 THEN FracOfInt(0)
            ELSE IF FracGt(metrics[i][key], f[i - 1]) THEN metrics[i][key] ELSE f[i - 1]
        maxVal == f[Len(metrics)]
    IN IF FracGt(maxVal, FracOfInt(0)) THEN maxVal
       ELSE IF key = "inferenceCount" THEN FracOfInt(1) ELSE FracOfInt(10)

\* Step 3: dimensionMax > 0 ? (rawValue / dimensionMax) * 100 : 0
NormalizedCell(rawValue, dimensionMax) ==
    IF FracGt(dimensionMax, FracOfInt(0))
    THEN FracMul(FracDiv(rawValue, dimensionMax), FracOfInt(100))
    ELSE FracOfInt(0)

\* the data point of one dimension: its label and one cell per serviceId
\* (a later service with the same key overwrites an earlier one)
RadarDataPoint(dim, metrics) ==
    LET dimensionMax == MaxValueOfDimension(metrics, dim.key)
        ids == {metrics[i].serviceId : i \in DOMAIN metrics}
        last(id) == CHOOSE i \in DOMAIN metrics :
                        /\ metrics[i].serviceId = id
                        /\ \A j \in DOMAIN metrics : metrics[j].serviceId = id => j <= i
    IN [dimension |-> dim.label,
        cells |-> [id \in ids |-> NormalizedCell(metrics[last(id)][dim.key], dimensionMax)]]

TransformedData(metrics) ==
    [d \in 1..Len(radarDimensions) |-> RadarDataPoint(radarDimensions[d], metrics)]

\* The calculation effect, run with the state change that sets uploadedServices
\* and inferenceCounts; `chart` is isChartGenerated as the handler leaves it.
CmpEffect(services, counts, chart) ==
    /\ uploadedServices' = services
    /\ inferenceCounts' = counts
    /\ IF services = <<>>
       THEN /\ calculatedPerServiceMetrics' = <<>>
            /\ calculatedRadarChartData' = <<>>
            /\ displayPerServiceMetrics' = <<>>
            /\ displayRadarChartData' = <<>>
            /\ isChartGenerated' = FALSE
       ELSE /\ calculatedPerServiceMetrics' = NewPerServiceMetrics(services, counts)
            /\ calculatedRadarChartData' = TransformedData(NewPerServiceMetrics(services, counts))
            /\ UNCHANGED <<displayPerServiceMetrics, displayRadarChartData>>
            /\ isChartGenerated' = chart

CmpInit ==
    /\ uploadedServices = <<>>
    /\ cmp_error = NULL
    /\ inferenceCounts = <<>>
    /\ calculatedPerServiceMetrics = <<>>
    /\ calculatedRadarChartData = <<>>
    /\ displayPerServiceMetrics = <<>>
    /\ displayRadarChartData = <<>>
    /\ isChartGenerated = FALSE
    /\ uploads = <<>>
    /\ cmp_events = 0

\* the files picked on the compare page
CmpFiles == {"a.json", "b.json", "a2.json", "partial.json", "noname.json", "bad.json"}

\* handleFilesChange up to its first await: the closure's uploadedServices and
\* inferenceCounts are copied into the call's own map and counts
CmpHandleFilesChange(files) ==
    /\ page = "compare"
    /\ cmp_events < MaxEvents
    /\ cmp_events' = cmp_events + 1
    /\ cmp_error' = NULL
    /\ isChartGenerated' = FALSE
    /\ IF Len(files) > 0
       THEN /\ Len(uploads) < MaxUploads
            /\ uploads' = Append(uploads,
                 [files |-> files, i |-> 1,
                  currentServicesMap |-> uploadedServices,
                  updatedInferenceCounts |-> inferenceCounts,
                  errorsAccumulator |-> <<>>])
       ELSE UNCHANGED uploads
    /\ UNCHANGED <<page, wizVars, visVars, intervals, expVars, uploadedServices, inferenceCounts,
                   calculatedPerServiceMetrics, calculatedRadarChartData,
                   displayPerServiceMetrics, displayRadarChartData>>

\* a list in place of the map: every parsed record is added at the end
MapSet_Append(map, parsedConfig) == Append(map, parsedConfig)

\* currentServicesMap.set(serviceId, parsedConfig): a present key keeps its place
MapSet(map, parsedConfig) ==
    IF \E j \in DOMAIN map : map[j].serviceId = parsedConfig.serviceId
    THEN [j \in DOMAIN map |->
            IF map[j].serviceId = parsedConfig.serviceId THEN parsedConfig ELSE map[j]]
    ELSE Append(map, parsedConfig)

\* if (!counts[serviceId]) counts[serviceId] = DEFAULT_INFERENCE_COUNT
DefaultCount(counts, serviceId) ==
    IF serviceId \in DOMAIN counts /\ counts[serviceId] # 0
    THEN counts
    ELSE [k \in DOMAIN counts \cup {serviceId} |->
            IF k = serviceId THEN DEFAULT_INFERENCE_COUNT ELSE counts[k]]

\* errorsAccumulator.join('\n')
RECURSIVE JoinLines(_)
JoinLines(lines) ==
    IF Len(lines) = 1 THEN lines[1]
    ELSE lines[1] \o "\n" \o JoinLines(Tail(lines))

\* the loop body with `errorsAccumulator = [msg]` in place of push(msg)
ProcessFile_LastErrorOnly(u, fileName) ==
    LET parsed == JSONParse(FileText[fileName])
    IN IF parsed.ok /\ ~InvalidStructure(parsed.value)
       THEN [u EXCEPT
               !.currentServicesMap = MapSet(@, parsed.value),
               !.updatedInferenceCounts = DefaultCount(@, parsed.value.serviceId)]
       ELSE [u EXCEPT
               !.errorsAccumulator =
                   << "Error processing " \o fileName \o ": " \o
                      (IF parsed.ok THEN "File " \o fileName \o ": Invalid structure."
                       ELSE parsed.message) >>]

\* the body of the for loop for one file: the call's map, counts and errors after it
ProcessFile(u, fileName) ==
    LET parsed == JSONParse(FileText[fileName])
    IN IF parsed.ok /\ ~InvalidStructure(parsed.value)
       THEN [u EXCEPT
               !.currentServicesMap = MapSet(@, parsed.value),
               !.updatedInferenceCounts = DefaultCount(@, parsed.value.serviceId)]
       ELSE [u EXCEPT
               !.errorsAccumulator = Append(@,
                   "Error processing " \o fileName \o ": " \o
                   (IF parsed.ok THEN "File " \o fileName \o ": Invalid structure."
                    ELSE parsed.message))]

\* handleFilesChange resumed after `await file.text()` of file i: the file is
\* processed; after the last file the state is set and the effect runs
CmpFileRead(n) ==
    /\ page = "compare"
    /\ UNCHANGED cmp_events
    /\ n \in DOMAIN uploads
    /\ LET u == ProcessFile(uploads[n], uploads[n].files[uploads[n].i])
       IN IF u.i < Len(u.files)
          THEN /\ uploads' = [uploads EXCEPT ![n] = [u EXCEPT !.i = @ + 1]]
               /\ UNCHANGED <<uploadedServices, cmp_error, inferenceCounts,
                              calculatedPerServiceMetrics, calculatedRadarChartData,
                              displayPerServiceMetrics, displayRadarChartData,
                              isChartGenerated>>
          ELSE /\ uploads' = [j \in 1..(Len(uploads) - 1) |->
                                 IF j < n THEN uploads[j] ELSE uploads[j + 1]]
               /\ CmpEffect(u.currentServicesMap, u.updatedInferenceCounts, isChartGenerated)
               /\ IF Len(u.errorsAccumulator) > 0
                  THEN cmp_error' = [message |-> JoinLines(u.errorsAccumulator)]
                  ELSE UNCHANGED cmp_error
    /\ UNCHANGED <<page, wizVars, visVars, intervals, expVars>>

\* delete newCounts[serviceIdToRemove]
DeleteKey(counts, key) == [k \in DOMAIN counts \ {key} |-> counts[k]]

handleRemoveService(serviceIdToRemove) ==
    /\ page = "compare"
    /\ cmp_events < MaxEvents
    /\ cmp_events' = cmp_events + 1
    /\ \E j \in DOMAIN uploadedServices : uploadedServices[j].serviceId = serviceIdToRemove
    /\ CmpEffect(SelectSeq(uploadedServices, LAMBDA s : s.serviceId # serviceIdToRemove),
                 DeleteKey(inferenceCounts, serviceIdToRemove), FALSE)
    /\ UNCHANGED <<page, wizVars, visVars, intervals, expVars, cmp_error, uploads>>

\* parseInt(value, 10) of a character sequence: an optional sign, then the
\* leading decimal digits; NaN when there is none
Digits == <<"0", "1", "2", "3", "4", "5", "6", "7", "8", "9">>
DigitValue(c) == (CHOOSE i \in DOMAIN Digits : Digits[i] = c) - 1
IsDigit(c) == c \in Range(Digits)

parseInt(value) ==
    LET signed == Len(value) > 0 /\ value[1] \in {"-", "+"}
        body == IF signed THEN Tail(value) ELSE value
        f[i \in 0..Len(body)] ==
            \* the value of the digits body[1..i] while they are all digits
            IF i = 0 THEN [n |-> 0, stop |-> FALSE]
            ELSE IF f[i - 1].stop \/ ~IsDigit(body[i])
                 THEN [n |-> f[i - 1].n, stop |-> TRUE]
                 ELSE [n |-> f[i - 1].n * 10 + DigitValue(body[i]), stop |-> FALSE]
    IN IF Len(body) = 0 \/ ~IsDigit(body[1]) THEN NaN
       ELSE Num(IF signed /\ value[1] = "-" THEN -f[Len(body)].n ELSE f[Len(body)].n)

\* the clamp with `count < 0` in place of `count < 1`
ClampCount_Zero(count) == IF ~IsNum(count) \/ count.v < 0 THEN 1 ELSE count.v

\* isNaN(count) || count < 1 ? 1 : count
ClampCount(count) == IF ~IsNum(count) \/ count.v < 1 THEN 1 ELSE count.v

\* what a user types into an inference-count field
InputValues ==
    { <<"-", "5">>, <<"0">>, <<>>, <<"a", "b", "c">>, <<"2">>, <<"2", ".", "7">> }

handleInferenceCountChange(serviceId, value) ==
    /\ page = "compare"
    /\ cmp_events < MaxEvents
    /\ cmp_events' = cmp_events + 1
    /\ \E j \in DOMAIN uploadedServices : uploadedServices[j].serviceId = serviceId
    /\ CmpEffect(uploadedServices,
                 [k \in DOMAIN inferenceCounts \cup {serviceId} |->
                     IF k = serviceId THEN ClampCount(parseInt(value)) ELSE inferenceCounts[k]],
                 FALSE)
    /\ UNCHANGED <<page, wizVars, visVars, intervals, expVars, cmp_error, uploads>>

handleGenerateChart ==
    /\ page = "compare"
    /\ cmp_events < MaxEvents
    /\ cmp_events' = cmp_events + 1
    /\ Len(uploadedServices) > 0
    /\ displayPerServiceMetrics' = calculatedPerServiceMetrics
    /\ displayRadarChartData' = calculatedRadarChartData
    /\ isChartGenerated' = TRUE
    /\ UNCHANGED <<page, wizVars, visVars, intervals, expVars, uploadedServices, cmp_error, inferenceCounts,
                   calculatedPerServiceMetrics, calculatedRadarChartData, uploads>>

ServiceIds == {"svcA", "svcB"}

-----------------------------------------------------------------------------
(* ExportServiceDataPage *)

STAGE_LABELS ==
    [k \in Range(lifecycleStageKeys) |->
        CASE k = "businessUseCaseGeneration" -> "Business Use Case Generation"
          [] k = "dataHandling" -> "Data Handling"
          [] k = "modelArchitectureExploration" -> "Model Architecture Exploration"
          [] k = "modelTraining" -> "Model Training"
          [] k = "modelOperation" -> "Model Operation (Inference)"
          [] k = "modelEndOfLife" -> "Model End-of-Life"
          [] k = "materialExtraction" -> "Material Extraction"
          [] k = "hardwareManufacturing" -> "Hardware Manufacturing"
          [] k = "hardwareTransport" -> "Hardware Transport"
          [] k = "AISystemInstallation" -> "AI System Installation"]

Str(s) == [t |-> "string", v |-> s]

\* a row that spreads the whole dynamic config, token included
CsvRow_WithToken(service, stageKey, config) ==
    LET row == [serviceId |-> service.serviceId,
                serviceName |-> service.name,
                serviceDescription |-> service.description,
                lifecycleStageKey |-> stageKey,
                lifecycleStageLabel |-> STAGE_LABELS[stageKey],
                impactCalculationMode |-> config.impactCalculationMode]
    IN IF config.impactCalculationMode = "approximation"
       THEN row @@ [co2EqInKg |-> JsGet(config, "co2EqInKg")]
       ELSE IF config.impactCalculationMode = "dynamic"
       THEN row @@ [co2EqInKg |-> Str("Dynamic (API)"), httpApiUrl |-> config.httpApiUrl,
                    token |-> config.token]
       ELSE row @@ [co2EqInKg |-> Num(0)]

\* a row whose value column is 0 for a dynamic stage
CsvRow_ZeroForDynamic(service, stageKey, config) ==
    LET row == [serviceId |-> service.serviceId,
                serviceName |-> service.name,
                serviceDescription |-> service.description,
                lifecycleStageKey |-> stageKey,
                lifecycleStageLabel |-> STAGE_LABELS[stageKey],
                impactCalculationMode |-> config.impactCalculationMode]
    IN IF config.impactCalculationMode = "approximation"
       THEN row @@ [co2EqInKg |-> JsGet(config, "co2EqInKg")]
       ELSE IF config.impactCalculationMode = "dynamic"
       THEN row @@ [co2EqInKg |-> Num(0), httpApiUrl |-> config.httpApiUrl]
       ELSE row @@ [co2EqInKg |-> Num(0)]

\* the CsvRow of one stage
CsvRow(service, stageKey, config) ==
    LET row == [serviceId |-> service.serviceId,
                serviceName |-> service.name,
                serviceDescription |-> service.description,
                lifecycleStageKey |-> stageKey,
                lifecycleStageLabel |-> STAGE_LABELS[stageKey],
                impactCalculationMode |-> config.impactCalculationMode]
    IN IF config.impactCalculationMode = "approximation"
       THEN row @@ [co2EqInKg |-> JsGet(config, "co2EqInKg")]
       ELSE IF config.impactCalculationMode = "dynamic"
       THEN row @@ [co2EqInKg |-> Str("Dynamic (API)"), httpApiUrl |-> config.httpApiUrl]
       ELSE row @@ [co2EqInKg |-> Num(0)]

\* csvData: lifecycleStageKeys.forEach(stageKey => { if (config) csvData.push(row) })
CsvData(service) ==
    LET cs == service.cycleStages
        f[i \in 0..Len(lifecycleStageKeys)] ==
            IF i = 0 THEN <<>>
            ELSE LET k == lifecycleStageKeys[i]
                 IN IF k \in DOMAIN cs THEN Append(f[i - 1], CsvRow(service, k, cs[k]))
                    ELSE f[i - 1]
    IN f[Len(lifecycleStageKeys)]

\* fileName.trim(), for the names a user types
FileNameInputs == {"", " ", "report.csv"}
Trim(s) == IF s = " " THEN "" ELSE s

ExpInit ==
    /\ exp_serviceData = NULL
    /\ exp_fileName = ""
    /\ exp_error = NULL
    /\ exp_reads = <<>>
    /\ downloads = <<>>

\* handleFileChange up to its await
ExpHandleFileChange(files) ==
    /\ page = "export"
    /\ Len(exp_reads) + Len(files) <= MaxReads
    /\ exp_error' = NULL
    /\ exp_serviceData' = NULL
    /\ exp_fileName' = ""
    /\ exp_reads' = exp_reads \o files
    /\ UNCHANGED <<page, wizVars, visVars, intervals, cmpVars, downloads>>

\* handleFileChange after its await, for the i-th suspended call
ExpFileRead(i) ==
    /\ page = "export"
    /\ i \in DOMAIN exp_reads
    /\ exp_reads' = [j \in 1..(Len(exp_reads) - 1) |->
                        IF j < i THEN exp_reads[j] ELSE exp_reads[j + 1]]
    /\ LET parsed == JSONParse(FileText[exp_reads[i]])
       IN IF parsed.ok /\ ~InvalidStructure(parsed.value)
          THEN /\ exp_serviceData' = parsed.value
               /\ exp_fileName' = parsed.value.serviceId \o "_impact_export.csv"
               /\ UNCHANGED exp_error
          ELSE /\ exp_error' = LoadError(parsed)
               /\ UNCHANGED <<exp_serviceData, exp_fileName>>
    /\ UNCHANGED <<page, wizVars, visVars, intervals, cmpVars, downloads>>

\* onChange of the filename field (rendered when a record is loaded)
setFileName(value) ==
    /\ page = "export"
    /\ exp_serviceData # NULL
    /\ exp_fileName' = value
    /\ UNCHANGED <<page, wizVars, visVars, intervals, cmpVars, exp_serviceData, exp_error,
                   exp_reads, downloads>>

\* the Export button (rendered when a record is loaded)
handleExportToCsv ==
    /\ page = "export"
    /\ exp_serviceData # NULL
    /\ Len(downloads) < MaxDownloads
    /\ LET csvData == CsvData(exp_serviceData)
       IN IF Len(csvData) = 0
          THEN /\ exp_error' = [message |-> "No impact data found in the service to export."]
               /\ UNCHANGED downloads
          ELSE /\ downloads' = Append(downloads,
                    [download |-> IF Trim(exp_fileName) # "" THEN Trim(exp_fileName)
                                  ELSE "ai_service_impact_export.csv",
                     csvData |-> csvData])
               /\ UNCHANGED exp_error
    /\ UNCHANGED <<page, wizVars, visVars, intervals, cmpVars, exp_serviceData, exp_fileName, exp_reads>>

-----------------------------------------------------------------------------
(* CreateServicePage: the create / edit wizard *)

\* a JavaScript boolean
Bool(b) == [t |-> "boolean", v |-> b]

\* !x for x null or a boolean
Not(x) == x = NULL \/ x = Bool(FALSE)

initialState ==
    [currentStep |-> 0, serviceId |-> "", name |-> "", description |-> "",
     includeHardware |-> NULL, cycleStages |-> createDefaultCycleStages,
     isEditing |-> FALSE, defaultFilename |-> ""]

\* a reducer whose LOAD_CONFIG looks at every stage, not at the hardware stages
reducer_AnyStage(st, action) ==
    CASE action.type = "SET_STEP" ->
            [st EXCEPT !.currentStep = action.payload]
      [] action.type = "LOAD_CONFIG" ->
            [st EXCEPT
                !.serviceId = action.payload.serviceId,
                !.name = action.payload.name,
                !.description = action.payload.description,
                !.cycleStages = action.payload.cycleStages,
                !.includeHardware =
                    Bool(\E key \in DOMAIN action.payload.cycleStages :
                            action.payload.cycleStages[key].impactCalculationMode # "none"),
                !.isEditing = TRUE,
                !.currentStep = 1]
      [] action.type = "UPDATE_METADATA" ->
            [k \in DOMAIN st |->
                IF k \in DOMAIN action.payload THEN action.payload[k] ELSE st[k]]
      [] action.type = "SET_INCLUDE_HARDWARE" ->
            [st EXCEPT !.includeHardware = action.payload]
      [] action.type = "UPDATE_CYCLE_STAGE" ->
            [st EXCEPT !.cycleStages =
                [k \in DOMAIN st.cycleStages \cup {action.payload.stageKey} |->
                    IF k = action.payload.stageKey THEN action.payload.config
                    ELSE st.cycleStages[k]]]
      [] action.type = "RESET_FORM" ->
            [initialState EXCEPT !.cycleStages = createDefaultCycleStages]
      [] action.type = "SET_DEFAULT_FILENAME" ->
            [st EXCEPT !.defaultFilename = action.payload]
      [] OTHER -> st

reducer(st, action) ==
    CASE action.type = "SET_STEP" ->
            [st EXCEPT !.currentStep = action.payload]
      [] action.type = "LOAD_CONFIG" ->
            [st EXCEPT
                !.serviceId = action.payload.serviceId,
                !.name = action.payload.name,
                !.description = action.payload.description,
                !.cycleStages = action.payload.cycleStages,
                !.includeHardware =
                    Bool(\E key \in DOMAIN action.payload.cycleStages :
                            /\ key \in {"materialExtraction", "hardwareManufacturing",
                                        "hardwareTransport", "AISystemInstallation"}
                            /\ action.payload.cycleStages[key].impactCalculationMode # "none"),
                !.isEditing = TRUE,
                !.currentStep = 1]
      [] action.type = "UPDATE_METADATA" ->
            [k \in DOMAIN st |->
                IF k \in DOMAIN action.payload THEN action.payload[k] ELSE st[k]]
      [] action.type = "SET_INCLUDE_HARDWARE" ->
            [st EXCEPT !.includeHardware = action.payload]
      [] action.type = "UPDATE_CYCLE_STAGE" ->
            [st EXCEPT !.cycleStages =
                [k \in DOMAIN st.cycleStages \cup {action.payload.stageKey} |->
                    IF k = action.payload.stageKey THEN action.payload.config
                    ELSE st.cycleStages[k]]]
      [] action.type = "RESET_FORM" ->
            [initialState EXCEPT !.cycleStages = createDefaultCycleStages]
      [] action.type = "SET_DEFAULT_FILENAME" ->
            [st EXCEPT !.defaultFilename = action.payload]
      [] OTHER -> st

\* Step2_HardwareStagesForm and Step3_SoftwareStagesForm: the stages they list
hardwareStageKeys ==
    << "materialExtraction", "hardwareManufacturing", "hardwareTransport",
       "AISystemInstallation" >>

softwareStageKeys ==
    << "businessUseCaseGeneration", "dataHandling", "modelArchitectureExploration",
       "modelTraining", "modelOperation", "modelEndOfLife" >>

\* the stages whose LifecycleStageInput is on screen in state st
RenderedStages(st) ==
    IF st.currentStep = 2 /\ ~Not(st.includeHardware) THEN Range(hardwareStageKeys)
    ELSE IF st.currentStep = 3 THEN Range(softwareStageKeys)
    ELSE {}

\* LifecycleStageInput reads config.impactCalculationMode: a TypeError when
\* state.cycleStages has no entry for the stage
RenderThrows(st) == \E stageKey \in RenderedStages(st) : stageKey \notin DOMAIN st.cycleStages

\* JSON.stringify: members whose value is undefined are left out, NaN is
\* written as null; the result is a text that parses to what was written
StringifyConfig(config) ==
    [k \in {j \in DOMAIN config : ~(j = "co2EqInKg" /\ config[j] = Undefined)} |->
        IF k = "co2EqInKg" /\ config[k] = NaN THEN NULL ELSE config[k]]

JSONStringify(exportData) ==
    [parses |-> TRUE,
     value |-> [k \in DOMAIN exportData |->
                  IF k = "cycleStages"
                  THEN [s \in DOMAIN exportData.cycleStages |->
                           StringifyConfig(exportData.cycleStages[s])]
                  ELSE exportData[k]]]

\* Step4_ExportView: the object its first effect serialises
SchemaUrl == "https://example.com/schemas/cgassef.schema.json"
ExportData(st) ==
    [k \in {"$schema", "serviceId", "name", "description", "cycleStages"} |->
        IF k = "$schema" THEN SchemaUrl ELSE st[k]]

\* the text '' of a useState('') that no effect has filled yet
EmptyText == [parses |-> FALSE]

\* state.defaultFilename || 'ai_service_config'
DefaultFileName(st) ==
    IF st.defaultFilename # "" THEN st.defaultFilename ELSE "ai_service_config"

\* the wizard after a dispatch that leaves the reducer in state st: the step
\* of st is rendered; an error thrown while rendering unmounts the whole
\* application (there is no error boundary; `state` is then the reducer state
\* whose rendering threw); Step4_ExportView is mounted with its initial state
\* and runs its two effects
WizCommit(st) ==
    IF RenderThrows(st)
    THEN /\ page' = "crashed"
         /\ state' = st
         /\ wiz_fileName' = ""
         /\ jsonStringToExport' = EmptyText
    ELSE /\ state' = st
         /\ IF st.currentStep = 4
            THEN /\ jsonStringToExport' = JSONStringify(ExportData(st))
                 /\ wiz_fileName' = IF state.currentStep = 4
                                       /\ st.defaultFilename = state.defaultFilename
                                    THEN wiz_fileName ELSE DefaultFileName(st)
            ELSE /\ jsonStringToExport' = EmptyText
                 /\ wiz_fileName' = ""
         /\ UNCHANGED page

WizInit ==
    /\ state = initialState
    /\ wiz_reads = <<>>
    /\ wiz_fileName = ""
    /\ jsonStringToExport = EmptyText
    /\ wiz_download = NULL

\* the files picked on step 0
WizFiles == {"d.json", "partial.json", "bad.json"}

\* Step0_LoadOrNew.handleFileChange up to its await
WizHandleFileChange(files) ==
    /\ page = "create"
    /\ state.currentStep = 0
    /\ Len(wiz_reads) + Len(files) <= MaxWizReads
    /\ wiz_reads' = wiz_reads \o files
    /\ wiz_download' = NULL
    /\ UNCHANGED <<page, state, wiz_fileName, jsonStringToExport,
                   visVars, intervals, cmpVars, expVars>>

\* Step0_LoadOrNew.handleFileChange after its await, for the i-th suspended
\* call: the parsed value is dispatched as it is; a parse error is alerted
WizFileRead(i) ==
    /\ page = "create"
    /\ i \in DOMAIN wiz_reads
    /\ wiz_download' = NULL
    /\ LET parsed == JSONParse(FileText[wiz_reads[i]])
           rest == [j \in 1..(Len(wiz_reads) - 1) |->
                       IF j < i THEN wiz_reads[j] ELSE wiz_reads[j + 1]]
           st == reducer(state, [type |-> "LOAD_CONFIG", payload |-> parsed.value])
       IN IF parsed.ok
          THEN /\ WizCommit(st)
               /\ wiz_reads' = rest
          ELSE /\ wiz_reads' = rest
               /\ UNCHANGED <<page, state, wiz_fileName, jsonStringToExport>>
    /\ UNCHANGED <<visVars, intervals, cmpVars, expVars>>

\* the "Start New Configuration" button of step 0
StartNew ==
    /\ page = "create"
    /\ state.currentStep = 0
    /\ wiz_download' = NULL
    /\ WizCommit(reducer(reducer(state, [type |-> "RESET_FORM"]),
                         [type |-> "SET_STEP", payload |-> 1]))
    /\ UNCHANGED <<wiz_reads, visVars, intervals, cmpVars, expVars>>

\* what a user types into the fields of step 1
MetadataInputs ==
    [serviceId |-> {"", "svcW"}, name |-> {"", "Wiz"}, description |-> {""}]

\* Step1_MetadataForm.handleInputChange
handleInputChange(name, value) ==
    /\ page = "create"
    /\ state.currentStep = 1
    /\ wiz_download' = NULL
    /\ WizCommit(reducer(state, [type |-> "UPDATE_METADATA",
                                 payload |-> [k \in {name} |-> value]]))
    /\ UNCHANGED <<wiz_reads, visVars, intervals, cmpVars, expVars>>

\* Step1_MetadataForm.handleHardwareChoiceChange
handleHardwareChoiceChange(value) ==
    /\ page = "create"
    /\ state.currentStep = 1
    /\ wiz_download' = NULL
    /\ WizCommit(reducer(state, [type |-> "SET_INCLUDE_HARDWARE",
                                 payload |-> Bool(value = "yes")]))
    /\ UNCHANGED <<wiz_reads, visVars, intervals, cmpVars, expVars>>

\* a wizard in which Next and Back never skip the hardware step
SkipsHardware_Never(st, from) == FALSE

\* state.currentStep === from && !state.includeHardware
SkipsHardware(st, from) == st.currentStep = from /\ Not(st.includeHardware)

\* the Next button (rendered on steps 1 and 2)
nextStep ==
    /\ page = "create"
    /\ state.currentStep > 0 /\ state.currentStep < 3
    /\ wiz_download' = NULL
    /\ WizCommit(reducer(state, [type |-> "SET_STEP",
                                 payload |-> IF SkipsHardware(state, 1) THEN 3
                                             ELSE state.currentStep + 1]))
    /\ UNCHANGED <<wiz_reads, visVars, intervals, cmpVars, expVars>>

\* the Back button (rendered on steps 2, 3 and 4)
prevStep ==
    /\ page = "create"
    /\ state.currentStep > 1 /\ state.currentStep <= 4
    /\ wiz_download' = NULL
    /\ WizCommit(reducer(state, [type |-> "SET_STEP",
                                 payload |-> IF SkipsHardware(state, 3) THEN 1
                                             ELSE state.currentStep - 1]))
    /\ UNCHANGED <<wiz_reads, visVars, intervals, cmpVars, expVars>>

\* the moments at which "Next: Save Impact Data" is clicked, as the file name
\* made of them
Timestamps == {"20250101_120000_ai_config"}

\* the "Next: Save Impact Data" button (rendered on step 3)
NextExport(filename) ==
    /\ page = "create"
    /\ state.currentStep = 3
    /\ wiz_download' = NULL
    /\ WizCommit(reducer(reducer(state, [type |-> "SET_DEFAULT_FILENAME", payload |-> filename]),
                         [type |-> "SET_STEP", payload |-> 4]))
    /\ UNCHANGED <<wiz_reads, visVars, intervals, cmpVars, expVars>>

\* the stages edited in the model, one of software and one of hardware
EditedStages == {"modelOperation", "hardwareTransport"}

\* x || '' for a string member that may be missing
OrEmpty(config, field) == IF field \in DOMAIN config THEN config[field] ELSE ""

\* LifecycleStageInput.handleModeChange: the config handed to onConfigChange
ModeChanged(config, newMode) ==
    CASE newMode = "none" -> [impactCalculationMode |-> "none"]
      [] newMode = "approximation" ->
            [impactCalculationMode |-> "approximation",
             co2EqInKg |-> JsOrZero(JsGet(config, "co2EqInKg"))]
      [] newMode = "dynamic" ->
            [impactCalculationMode |-> "dynamic",
             httpApiUrl |-> OrEmpty(config, "httpApiUrl"),
             token |-> OrEmpty(config, "token")]

handleModeChange(stageKey, newMode) ==
    /\ page = "create"
    /\ stageKey \in RenderedStages(state)
    /\ wiz_download' = NULL
    /\ WizCommit(reducer(state,
            [type |-> "UPDATE_CYCLE_STAGE",
             payload |-> [stageKey |-> stageKey,
                          config |-> ModeChanged(state.cycleStages[stageKey], newMode)]]))
    /\ UNCHANGED <<wiz_reads, visVars, intervals, cmpVars, expVars>>

\* parseFloat of a character sequence, in tenths: an optional sign, the
\* leading digits, and the first digit after a decimal point; NaN when there
\* is no digit
parseFloat(value) ==
    LET signed == Len(value) > 0 /\ value[1] \in {"-", "+"}
        body == IF signed THEN Tail(value) ELSE value
        whole == parseInt(body)
        n == CHOOSE i \in 0..Len(body) :
                /\ \A j \in 1..i : IsDigit(body[j])
                /\ i = Len(body) \/ ~IsDigit(body[i + 1])
        tenth == IF Len(body) >= n + 2 /\ body[n + 1] = "." /\ IsDigit(body[n + 2])
                 THEN DigitValue(body[n + 2]) ELSE -1
        magnitude == (IF n > 0 THEN whole.v * 10 ELSE 0) + (IF tenth >= 0 THEN tenth ELSE 0)
    IN IF n = 0 /\ tenth < 0 THEN NaN
       ELSE Num(IF signed /\ value[1] = "-" THEN -magnitude ELSE magnitude)

\* what a user types into a CO2 field
ApproximationInputs == { <<>>, <<"-", "5">>, <<"2", ".", "5">> }

\* LifecycleStageInput.handleApproximationChange (the field is rendered in
\* approximation mode)
handleApproximationChange(stageKey, value) ==
    /\ page = "create"
    /\ stageKey \in RenderedStages(state)
    /\ state.cycleStages[stageKey].impactCalculationMode = "approximation"
    /\ wiz_download' = NULL
    /\ WizCommit(reducer(state,
            [type |-> "UPDATE_CYCLE_STAGE",
             payload |-> [stageKey |-> stageKey,
                          config |-> [impactCalculationMode |-> "approximation",
                                      co2EqInKg |-> JsOrZero(parseFloat(value))]]]))
    /\ UNCHANGED <<wiz_reads, visVars, intervals, cmpVars, expVars>>

\* what a user types into the URL and token fields
DynamicInputs ==
    [httpApiUrl |-> {"https://api.example.com/w"}, token |-> {"tok-w"}]

\* LifecycleStageInput.handleDynamicChange (the fields are rendered in dynamic
\* mode)
handleDynamicChange(stageKey, name, value) ==
    /\ page = "create"
    /\ stageKey \in RenderedStages(state)
    /\ state.cycleStages[stageKey].impactCalculationMode = "dynamic"
    /\ wiz_download' = NULL
    /\ LET config == state.cycleStages[stageKey]
       IN WizCommit(reducer(state,
            [type |-> "UPDATE_CYCLE_STAGE",
             payload |-> [stageKey |-> stageKey,
                          config |-> [k \in DOMAIN config \cup {"impactCalculationMode", name} |->
                                        IF k = name THEN value
                                        ELSE IF k = "impactCalculationMode" THEN "dynamic"
                                        ELSE config[k]]]]))
    /\ UNCHANGED <<wiz_reads, visVars, intervals, cmpVars, expVars>>

\* what a user types into the file name field of step 4
WizFileNameInputs == {" ", "my_config"}

\* Step4_ExportView: onChange of the file name field
WizSetFileName(value) ==
    /\ page = "create"
    /\ state.currentStep = 4
    /\ wiz_fileName' = value
    /\ wiz_download' = NULL
    /\ UNCHANGED <<page, state, wiz_reads, jsonStringToExport,
                   visVars, intervals, cmpVars, expVars>>

\* Step4_ExportView.handleDownload
handleDownload ==
    /\ page = "create"
    /\ state.currentStep = 4
    /\ wiz_download' =
          [download |-> (IF Trim(wiz_fileName) # "" THEN Trim(wiz_fileName)
                         ELSE "ai_service_config") \o ".json",
           text |-> jsonStringToExport]
    /\ UNCHANGED <<page, state, wiz_reads, wiz_fileName, jsonStringToExport,
                   visVars, intervals, cmpVars, expVars>>

-----------------------------------------------------------------------------
(* App: the routes *)

Pages == {"home", "create", "visualize", "compare", "export"}

\* following a <Link>: the mounted page is unmounted (effects cleaned up, state
\* and suspended handlers dropped) and `p` is mounted with its initial state
Navigate(p) ==
    /\ page \in Pages
    /\ p \in Pages
    /\ p # page
    /\ page' = p
    /\ intervals' = ClearInterval(intervals)
    /\ vis_serviceData' = NULL
    /\ vis_error' = NULL
    /\ dynamicStageValues' = <<>>
    /\ detailedStageData' = <<>>
    /\ opVsEmbChartData' = <<>>
    /\ vis_reads' = <<>>
    /\ vis_selected' = <<>>
    /\ ticks' = 0
    /\ timerCount' = 0
    /\ uploadedServices' = <<>>
    /\ cmp_error' = NULL
    /\ inferenceCounts' = <<>>
    /\ calculatedPerServiceMetrics' = <<>>
    /\ calculatedRadarChartData' = <<>>
    /\ displayPerServiceMetrics' = <<>>
    /\ displayRadarChartData' = <<>>
    /\ isChartGenerated' = FALSE
    /\ uploads' = <<>>
    /\ cmp_events' = 0
    /\ exp_serviceData' = NULL
    /\ exp_fileName' = ""
    /\ exp_error' = NULL
    /\ exp_reads' = <<>>
    /\ downloads' = <<>>
    /\ state' = initialState
    /\ wiz_reads' = <<>>
    /\ wiz_fileName' = ""
    /\ jsonStringToExport' = EmptyText
    /\ wiz_download' = NULL

Init ==
    /\ page = "home"
    /\ intervals = <<>>
    /\ VisInit
    /\ CmpInit
    /\ ExpInit
    /\ WizInit

Next ==
    \/ \E p \in Pages : Navigate(p)
    \/ \E f \in Files : VisHandleFileChange(<<f>>)
    \/ VisHandleFileChange(<<>>)
    \/ \E i \in DOMAIN vis_reads : VisFileRead(i)
    \/ \E t \in DOMAIN intervals : VisTick(t)
    \/ \E n \in 0..MaxBatch : \E files \in [1..n -> CmpFiles] : CmpHandleFilesChange(files)
    \/ \E n \in DOMAIN uploads : CmpFileRead(n)
    \/ \E id \in ServiceIds : handleRemoveService(id)
    \/ \E id \in ServiceIds, value \in InputValues : handleInferenceCountChange(id, value)
    \/ handleGenerateChart
    \/ \E f \in Files : ExpHandleFileChange(<<f>>)
    \/ ExpHandleFileChange(<<>>)
    \/ \E i \in DOMAIN exp_reads : ExpFileRead(i)
    \/ \E value \in FileNameInputs : setFileName(value)
    \/ handleExportToCsv
    \/ \E f \in WizFiles : WizHandleFileChange(<<f>>)
    \/ \E i \in DOMAIN wiz_reads : WizFileRead(i)
    \/ StartNew
    \/ \E name \in DOMAIN MetadataInputs : \E value \in MetadataInputs[name] :
          handleInputChange(name, value)
    \/ \E value \in {"yes", "no"} : handleHardwareChoiceChange(value)
    \/ nextStep
    \/ prevStep
    \/ \E filename \in Timestamps : NextExport(filename)
    \/ \E stageKey \in EditedStages, newMode \in {"none", "approximation", "dynamic"} :
          handleModeChange(stageKey, newMode)
    \/ \E stageKey \in EditedStages, value \in ApproximationInputs :
          handleApproximationChange(stageKey, value)
    \/ \E stageKey \in EditedStages : \E name \in DOMAIN DynamicInputs :
          \E value \in DynamicInputs[name] : handleDynamicChange(stageKey, name, value)
    \/ \E value \in WizFileNameInputs : WizSetFileName(value)
    \/ handleDownload

Spec == Init /\ [][Next]_vars

\* the forward button of the wizard: Next on steps 1 and 2, Next: Save Impact
\* Data on step 3
ForwardButton == nextStep \/ \E filename \in Timestamps : NextExport(filename)

\* the application with a user who does not leave an offered forward button
\* unpressed for ever
SpecForward == Init /\ [][Next]_vars /\ WF_vars(ForwardButton)

-----------------------------------------------------------------------------
(* Properties.  Quantities are exact (tenths of a kg, exact quotients); NaN  *)
(* is one value, so two sums that are both NaN count as the same number.     *)

\* the sequence s without its i-th element
RemoveAt(s, i) == [j \in 1..(Len(s) - 1) |-> IF j < i THEN s[j] ELSE s[j + 1]]

\* loading file f fails: its text is not JSON or fails the structure check
Failing(f) ==
    LET parsed == JSONParse(FileText[f])
    IN ~parsed.ok \/ InvalidStructure(parsed.value)

C2_ResolvedValuesNonNegative ==
    /\ vis_serviceData # NULL =>
          \A k \in DOMAIN vis_serviceData.cycleStages :
              JsGeZero(getCO2Value(k, vis_serviceData.cycleStages[k], dynamicStageValues))
    /\ \A i \in DOMAIN uploadedServices : \A k \in Range(lifecycleStageKeys) :
          calculateStaticCO2(uploadedServices[i], k) >= 0

\* the largest raw value of a dimension across the services
RawMaximum(metrics, key) ==
    CHOOSE r \in {metrics[i][key] : i \in DOMAIN metrics} :
        \A i \in DOMAIN metrics : ~FracGt(metrics[i][key], r)

\* C3: for a non-empty list of uploaded services every cell of the computed
\* radar table lies in [0, 100], and every dimension whose raw maximum is
\* nonzero has a cell that is exactly 100.
C3_CellsNormalized ==
    uploadedServices # <<>> =>
        \A d \in DOMAIN calculatedRadarChartData :
            LET cells == calculatedRadarChartData[d].cells
                key == radarDimensions[d].key
            IN /\ \A id \in DOMAIN cells :
                     /\ ~FracGt(FracOfInt(0), cells[id])
                     /\ ~FracGt(cells[id], FracOfInt(100))
               /\ RawMaximum(calculatedPerServiceMetrics, key).n # 0 =>
                     \E id \in DOMAIN cells : cells[id] = FracOfInt(100)

\* the dynamic stages of `service` with their tokens replaced by `tokens`
WithTokens(service, tokens) ==
    LET cs == service.cycleStages
    IN [service EXCEPT !.cycleStages =
          [k \in DOMAIN cs |->
              IF k \in DOMAIN tokens THEN [cs[k] EXCEPT !.token = tokens[k]] ELSE cs[k]]]

TokenValues == {"tok-op", "s3cret", ""}

\* C4: no exported row carries a token: whenever a file is downloaded, none of
\* its rows has a token field, and the rows are the ones the same record would
\* give with any other tokens in its dynamic stages.
C4_NoTokenExported ==
    [][Len(downloads') > Len(downloads) =>
          LET rows == downloads'[Len(downloads')].csvData
          IN /\ \A r \in DOMAIN rows : "token" \notin DOMAIN rows[r]
             /\ \A tokens \in [DynamicStages(exp_serviceData) -> TokenValues] :
                    rows = CsvData(WithTokens(exp_serviceData, tokens))]_vars

\* a file with the row of a dynamic stage has been downloaded
C4_Witness ==
    \E d \in DOMAIN downloads : \E r \in DOMAIN downloads[d].csvData :
        /\ downloads[d].csvData[r].impactCalculationMode = "dynamic"
        /\ "httpApiUrl" \in DOMAIN downloads[d].csvData[r]

\* C5: at most one timer runs, only on the visualize page, and it is the one
\* started last, for the record that is active now: the timer of a replaced or
\* cleared record, or of an unmounted page, is gone and cannot tick.
C5_NoStaleTimer ==
    /\ Len(intervals) <= 1
    /\ \A t \in DOMAIN intervals :
          /\ page = "visualize"
          /\ vis_serviceData # NULL
          /\ intervals[t].serviceData = vis_serviceData
          /\ intervals[t].intervalId = timerCount

\* the second timer of this mount runs alone and has fired: the first one was
\* stopped when its record was cleared
C5_Witness ==
    /\ page = "visualize"
    /\ timerCount = 2
    /\ Len(intervals) = 1
    /\ ticks > 0

\* cycleStages has exactly the ten canonical keys
Complete(record) == DOMAIN record.cycleStages = Range(lifecycleStageKeys)

\* C6: a record whose cycleStages misses a canonical key or has a key outside
\* the canon is never the active record of the visualize or export page nor
\* one of the uploaded services of the compare page.
C6_OnlyCompleteRecordsAdmitted ==
    /\ vis_serviceData # NULL => Complete(vis_serviceData)
    /\ exp_serviceData # NULL => Complete(exp_serviceData)
    /\ \A i \in DOMAIN uploadedServices : Complete(uploadedServices[i])

\* the entry of the error message for a failing file
ErrorEntry(f) ==
    "Error processing " \o f \o ": " \o
    (IF FileText[f].parses THEN "File " \o f \o ": Invalid structure."
     ELSE SyntaxErrorMessage)

\* the record of the last file of `files` that loads and has serviceId `id`
LastValidRecord(files, id) ==
    LET valid == {i \in DOMAIN files :
                    ~Failing(files[i]) /\ FileText[files[i]].value.serviceId = id}
        last == CHOOSE i \in valid : \A j \in valid : j <= i
    IN FileText[files[last]].value

\* the step in which the n-th suspended upload processes a file that is not
\* its last / processes its last file and sets the state
FileStep(n) ==
    /\ page = "compare" /\ page' = "compare"
    /\ n \in DOMAIN uploads
    /\ Len(uploads') = Len(uploads)
    /\ uploads'[n].i = uploads[n].i + 1
BatchCompletes(n) ==
    /\ page = "compare" /\ page' = "compare"
    /\ n \in DOMAIN uploads
    /\ uploads[n].i = Len(uploads[n].files)
    /\ uploads' = RemoveAt(uploads, n)

\* C7: accumulate and continue.  When a batch completes, every file of it that
\* loads has its service among the uploaded services (the record of the last
\* such file with that serviceId), whatever the other files did; the error
\* message is the entries of the failing files, one per file and naming it,
\* joined by newlines; no uploaded service is the content of a failing file,
\* and processing a failing file leaves the call's services and counts as
\* they were.
C7_AccumulateAndContinue ==
    [][\A n \in DOMAIN uploads :
          /\ BatchCompletes(n) =>
                LET files == uploads[n].files
                    failing == SelectSeq(files, Failing)
                IN /\ \A i \in DOMAIN files : ~Failing(files[i]) =>
                          \E j \in DOMAIN uploadedServices' :
                              uploadedServices'[j]
                                = LastValidRecord(files, FileText[files[i]].value.serviceId)
                   /\ failing # <<>> =>
                          cmp_error' = [message |->
                              JoinLines([i \in DOMAIN failing |-> ErrorEntry(failing[i])])]
                   /\ failing = <<>> => cmp_error' = cmp_error
                   /\ \A i \in DOMAIN files : Failing(files[i]) /\ FileText[files[i]].parses =>
                          \A j \in DOMAIN uploadedServices' :
                              uploadedServices'[j] # FileText[files[i]].value
                   /\ Failing(files[Len(files)]) =>
                          /\ uploadedServices' = uploads[n].currentServicesMap
                          /\ inferenceCounts' = uploads[n].updatedInferenceCounts
          /\ FileStep(n) /\ Failing(uploads[n].files[uploads[n].i]) =>
                /\ uploads'[n].currentServicesMap = uploads[n].currentServicesMap
                /\ uploads'[n].updatedInferenceCounts = uploads[n].updatedInferenceCounts
                /\ Len(uploads'[n].errorsAccumulator) = Len(uploads[n].errorsAccumulator) + 1
      ]_vars

\* the first upload of a mount was a batch of a failing file and a valid
\* one: the valid file's service is uploaded and the message names the other
C7_Witness ==
    /\ page = "compare"
    /\ cmp_events = 1
    /\ uploads = <<>>
    /\ uploadedServices = <<RecA>>
    /\ cmp_error = [message |-> ErrorEntry("bad.json")]

\* C8 as stated: a failing load changes nothing but the error message.  On the
\* visualize and export pages the active record is the same after selecting a
\* file that fails to load and after the failure itself; on the compare page
\* a batch with a failing file sets the message and every service uploaded
\* before is still uploaded.
C8_PreviousStateKept ==
    [][/\ \A f \in Files : Failing(f) =>
            /\ (page = "visualize" /\ page' = page /\ vis_reads' = vis_reads \o <<f>>)
                  => vis_serviceData' = vis_serviceData
            /\ (page = "export" /\ page' = page /\ exp_reads' = exp_reads \o <<f>>)
                  => exp_serviceData' = exp_serviceData
       /\ \A i \in DOMAIN vis_reads :
            (page' = page /\ Failing(vis_reads[i]) /\ vis_reads' = RemoveAt(vis_reads, i))
                  => vis_error' # NULL /\ vis_serviceData' = vis_serviceData
       /\ \A i \in DOMAIN exp_reads :
            (page' = page /\ Failing(exp_reads[i]) /\ exp_reads' = RemoveAt(exp_reads, i))
                  => exp_error' # NULL /\ exp_serviceData' = exp_serviceData
       /\ \A n \in DOMAIN uploads :
            (BatchCompletes(n) /\ \E i \in DOMAIN uploads[n].files : Failing(uploads[n].files[i]))
                  => /\ cmp_error' # NULL
                     /\ \A j \in DOMAIN uploadedServices : \E k \in DOMAIN uploadedServices' :
                            uploadedServices'[k].serviceId = uploadedServices[j].serviceId
      ]_vars

\* the services of `after` include one for every serviceId of `before`
KeepsServices(before, after) ==
    \A j \in DOMAIN before : \E k \in DOMAIN after :
        after[k].serviceId = before[j].serviceId

\* C8, amended: a failing load sets an error message and changes nothing else.
\* On the compare page the services uploaded when the files were selected
\* remain: the call starts from them, no file removes one, and the completed
\* batch stores them.  On the visualize and export pages the record loaded
\* before does not remain: selecting a file clears the active record and the
\* message before the file is read, and the failure sets the message and
\* leaves the record as it is then.
C8_FailureSetsError ==
    [][/\ \A f \in Files :
            /\ (page = "visualize" /\ page' = page /\ vis_reads' = vis_reads \o <<f>>)
                  => vis_serviceData' = NULL /\ vis_error' = NULL
            /\ (page = "export" /\ page' = page /\ exp_reads' = exp_reads \o <<f>>)
                  => exp_serviceData' = NULL /\ exp_error' = NULL
       /\ \A i \in DOMAIN vis_reads :
            (page' = page /\ Failing(vis_reads[i]) /\ vis_reads' = RemoveAt(vis_reads, i))
                  => /\ vis_error' # NULL
                     /\ vis_serviceData' = vis_serviceData
                     /\ dynamicStageValues' = dynamicStageValues
                     /\ intervals' = intervals
       /\ \A i \in DOMAIN exp_reads :
            (page' = page /\ Failing(exp_reads[i]) /\ exp_reads' = RemoveAt(exp_reads, i))
                  => /\ exp_error' # NULL
                     /\ exp_serviceData' = exp_serviceData
                     /\ exp_fileName' = exp_fileName
       /\ (page = "compare" /\ page' = page /\ Len(uploads') > Len(uploads))
            => /\ uploads'[Len(uploads')].currentServicesMap = uploadedServices
               /\ uploadedServices' = uploadedServices
       /\ \A n \in DOMAIN uploads :
            /\ FileStep(n) =>
                  KeepsServices(uploads[n].currentServicesMap, uploads'[n].currentServicesMap)
            /\ BatchCompletes(n) =>
                  /\ KeepsServices(uploads[n].currentServicesMap, uploadedServices')
                  /\ (\E i \in DOMAIN uploads[n].files : Failing(uploads[n].files[i]))
                        => cmp_error' # NULL
      ]_vars

\* on the visualize page a load has failed after a record with a timer had
\* been loaded in this mount: there is a message and no active record
C8_Witness ==
    /\ page = "visualize"
    /\ vis_error # NULL
    /\ vis_serviceData = NULL
    /\ vis_reads = <<>>
    /\ timerCount = 1

\* C9: the request count that divides a service's sums is an integer >= 1.
\* Every stored count, every count a suspended upload carries and every
\* divisor the engine uses is a positive integer, and an edit whose text does
\* not parse to a number >= 1 stores 1 ("-5" becomes 1).
C9_DivisorAtLeastOne ==
    /\ \A id \in DOMAIN inferenceCounts : inferenceCounts[id] \in Nat \ {0}
    /\ \A n \in DOMAIN uploads : \A id \in DOMAIN uploads[n].updatedInferenceCounts :
          uploads[n].updatedInferenceCounts[id] \in Nat \ {0}
    /\ \A i \in DOMAIN uploadedServices :
          /\ TotalRequests(inferenceCounts, uploadedServices[i].serviceId) \in Nat \ {0}
          /\ calculatedPerServiceMetrics[i].inferenceCount
               = FracOfInt(TotalRequests(inferenceCounts, uploadedServices[i].serviceId))
    /\ \A value \in InputValues :
          LET count == parseInt(value)
          IN IF IsNum(count) /\ count.v >= 1
             THEN ClampCount(count) = count.v
             ELSE ClampCount(count) = 1
    /\ ClampCount(parseInt(<<"-", "5">>)) = 1

\* a count of 1 is stored for an uploaded service: only a clamped edit gives it
C9_Witness ==
    /\ page = "compare"
    /\ \E i \in DOMAIN uploadedServices :
          /\ uploadedServices[i].serviceId \in DOMAIN inferenceCounts
          /\ inferenceCounts[uploadedServices[i].serviceId] = 1
          /\ calculatedPerServiceMetrics[i].inferenceCount = FracOfInt(1)

\* C10: while the chart is shown, the displayed radar table and per-service
\* metrics are the ones freshly derived from the current uploaded services and
\* the current inference counts.
C10_DisplayedTableFresh ==
    isChartGenerated =>
        /\ displayPerServiceMetrics = NewPerServiceMetrics(uploadedServices, inferenceCounts)
        /\ displayRadarChartData
             = TransformedData(NewPerServiceMetrics(uploadedServices, inferenceCounts))

\* C11: a dimension in which every service reports 0 has 0 in every cell: the
\* maximum used as denominator is positive for every dimension (a maximum
\* that is not positive is replaced), and every cell is a finite quotient.
C11_AllZeroDimension ==
    \A d \in DOMAIN calculatedRadarChartData :
        LET key == radarDimensions[d].key
            metrics == calculatedPerServiceMetrics
            cells == calculatedRadarChartData[d].cells
        IN /\ FracGt(MaxValueOfDimension(metrics, key), FracOfInt(0))
           /\ \A id \in DOMAIN cells : cells[id].d > 0
           /\ (\A i \in DOMAIN metrics : metrics[i][key] = FracOfInt(0)) =>
                 \A id \in DOMAIN cells : cells[id] = FracOfInt(0)

\* two services are uploaded and both report 0 embodied impact
C11_Witness ==
    /\ Len(uploadedServices) = 2
    /\ Len(calculatedRadarChartData) = Len(radarDimensions)
    /\ \A i \in DOMAIN calculatedPerServiceMetrics :
          calculatedPerServiceMetrics[i].totalEmbodiedImpact = FracOfInt(0)
    /\ \E i \in DOMAIN calculatedPerServiceMetrics :
          calculatedPerServiceMetrics[i].totalImpact # FracOfInt(0)

\* C12: the export of the record loaded on the export page has exactly ten
\* rows, one per canonical stage key in lifecycleStageKeys order, the six
\* software keys first and then the four hardware keys.
C12_TenRowsInOrder ==
    /\ lifecycleStageKeys = softwareCycleKeys \o hardwareCycleKeys
    /\ exp_serviceData # NULL =>
          LET rows == CsvData(exp_serviceData)
          IN /\ Len(rows) = Len(lifecycleStageKeys)
             /\ \A i \in DOMAIN rows : rows[i].lifecycleStageKey = lifecycleStageKeys[i]
    /\ \A d \in DOMAIN downloads :
          /\ Len(downloads[d].csvData) = Len(lifecycleStageKeys)
          /\ \A i \in DOMAIN downloads[d].csvData :
                downloads[d].csvData[i].lifecycleStageKey = lifecycleStageKeys[i]

\* C13: every normalized cell is rawValue / maxValue * 100 with maxValue the
\* maximum of the dimension's raw values over the uploaded services (for the
\* dimensions where that maximum is not 0, so that the quotient exists).
C13_CellIsShareOfMaximum ==
    \A d \in DOMAIN calculatedRadarChartData :
        LET key == radarDimensions[d].key
            metrics == calculatedPerServiceMetrics
            cells == calculatedRadarChartData[d].cells
        IN RawMaximum(metrics, key).n # 0 =>
              \A i \in DOMAIN metrics :
                  cells[metrics[i].serviceId]
                    = FracMul(FracDiv(metrics[i][key], RawMaximum(metrics, key)),
                              FracOfInt(100))

\* the count configured for a service, 1000 when there is none
ConfiguredCount(counts, serviceId) ==
    IF serviceId \in DOMAIN counts THEN counts[serviceId] ELSE DEFAULT_INFERENCE_COUNT

\* the counts after a file that loads was processed with counts `before`
CountsAfterFile(before, after, f) ==
    LET id == FileText[f].value.serviceId
    IN /\ id \in DOMAIN after
       /\ after[id] = ConfiguredCount(before, id)
       /\ \A k \in DOMAIN before : k \in DOMAIN after /\ after[k] = before[k]

\* C14: the three per-inference averages of every service are its totals
\* divided by its request count, the configured count or 1000 when none is
\* configured; an uploaded file gives its service the count 1000 unless a
\* count is already configured for it, and changes no other count.
C14_PerInferenceAverages ==
    /\ [](\A i \in DOMAIN uploadedServices :
            LET m == calculatedPerServiceMetrics[i]
                count == ConfiguredCount(inferenceCounts, uploadedServices[i].serviceId)
            IN /\ m.inferenceCount = FracOfInt(count)
               /\ m.avgEmbodiedPerInference = Frac(m.totalEmbodiedImpact.n, count)
               /\ m.avgOperationalPerInference = Frac(m.totalOperationalImpact.n, count)
               /\ m.avgTotalPerInference = Frac(m.totalImpact.n, count))
    /\ [][\A n \in DOMAIN uploads :
            LET u == uploads[n]
                f == u.files[u.i]
            IN ~Failing(f) =>
                 /\ FileStep(n) =>
                       CountsAfterFile(u.updatedInferenceCounts,
                                       uploads'[n].updatedInferenceCounts, f)
                 /\ BatchCompletes(n) =>
                       CountsAfterFile(u.updatedInferenceCounts, inferenceCounts', f)
         ]_vars

\* a service with a nonzero total has the configured count 2, another one the
\* default 1000
C14_Witness ==
    /\ Len(uploadedServices) = 2
    /\ \E i, j \in DOMAIN uploadedServices :
          /\ inferenceCounts[uploadedServices[i].serviceId] = 2
          /\ calculatedPerServiceMetrics[i].totalImpact.n > 0
          /\ calculatedPerServiceMetrics[i].avgTotalPerInference
               = Frac(calculatedPerServiceMetrics[i].totalImpact.n, 2)
          /\ inferenceCounts[uploadedServices[j].serviceId] = DEFAULT_INFERENCE_COUNT

\* C17: in every exported row the value column is 0 for a none stage, the
\* stored co2EqInKg for an approximation stage and the string 'Dynamic (API)'
\* for a dynamic stage; the URL column exists exactly in the rows of dynamic
\* stages and holds the stage's httpApiUrl.
C17_RowValueColumn ==
    [][Len(downloads') > Len(downloads) =>
          LET rows == downloads'[Len(downloads')].csvData
              cs == exp_serviceData.cycleStages
          IN \A r \in DOMAIN rows :
                LET row == rows[r]
                    config == cs[row.lifecycleStageKey]
                    mode == config.impactCalculationMode
                IN /\ row.impactCalculationMode = mode
                   /\ ("httpApiUrl" \in DOMAIN row) = (mode = "dynamic")
                   /\ mode = "none" => row.co2EqInKg = Num(0)
                   /\ mode = "approximation" => row.co2EqInKg = JsGet(config, "co2EqInKg")
                   /\ mode = "dynamic" =>
                         /\ row.co2EqInKg = Str("Dynamic (API)")
                         /\ row.httpApiUrl = config.httpApiUrl]_vars

\* a downloaded file has rows of all three modes
C17_Witness ==
    \E d \in DOMAIN downloads :
        \A mode \in {"none", "approximation", "dynamic"} :
            \E r \in DOMAIN downloads[d].csvData :
                downloads[d].csvData[r].impactCalculationMode = mode

\* six services with different ids, to go once around the palette
SixServices ==
    [i \in 1..6 |-> [RecA EXCEPT !.serviceId = <<"s1", "s2", "s3", "s4", "s5", "s6">>[i]]]

\* C18: at every recomputation the service at (0-based) position i of the
\* uploaded list has palette colour (i mod 5) + 1, whatever was uploaded or
\* removed before; the sixth service of a list has colour 1 again.
C18_ColourByPosition ==
    /\ \A i \in DOMAIN calculatedPerServiceMetrics :
          /\ calculatedPerServiceMetrics[i].serviceId = uploadedServices[i].serviceId
          /\ calculatedPerServiceMetrics[i].color = ((i - 1) % 5) + 1
    /\ LET metrics == NewPerServiceMetrics(SixServices, <<>>)
       IN \A i \in DOMAIN SixServices : metrics[i].color = <<1, 2, 3, 4, 5, 1>>[i]

\* the chart of two services was generated and the first was then removed:
\* the remaining service had colour 2 and has colour 1 now
C18_Witness ==
    /\ Len(displayPerServiceMetrics) = 2
    /\ Len(calculatedPerServiceMetrics) = 1
    /\ displayPerServiceMetrics[2].serviceId = calculatedPerServiceMetrics[1].serviceId
    /\ displayPerServiceMetrics[2].color = 2
    /\ calculatedPerServiceMetrics[1].color = 1

\* C19: the hardware step is active only when hardware is included
\* (currentStep = 2 implies includeHardware = true); Next from step 1 with
\* hardware not included goes to step 3, and Back from step 3 with hardware not
\* included goes to step 1 (with hardware included both go to step 2).
\* A step of the wizard that leaves step 1, or goes back from step 3, without
\* completing a file read is a press of Next or Back.
StepTwoNeedsHardware ==
    page \in {"create", "crashed"} /\ state.currentStep = 2
        => state.includeHardware = Bool(TRUE)
NextBackTargets ==
    page = "create" /\ page' \in {"create", "crashed"} /\ wiz_reads' = wiz_reads
        => /\ state.currentStep = 1 /\ state'.currentStep # 1
               => state'.currentStep = IF state.includeHardware = Bool(TRUE) THEN 2 ELSE 3
           /\ state.currentStep = 3 /\ state'.currentStep < 3
               => state'.currentStep = IF state.includeHardware = Bool(TRUE) THEN 2 ELSE 1
C19_HardwareStepOnlyWhenIncluded == []StepTwoNeedsHardware /\ [][NextBackTargets]_vars

\* hardware was declined on step 1 and the wizard stands on step 3, having
\* skipped step 2
C19_Witness ==
    page = "create" /\ state.currentStep = 3 /\ state.includeHardware = Bool(FALSE)

\* C20: in every wizard state, also after an existing file was loaded,
\* cycleStages holds a config for exactly the ten canonical stage keys, none
\* missing and none extra.
C20_CycleStagesComplete ==
    page = "create" => DOMAIN state.cycleStages = Range(lifecycleStageKeys)

\* the record schema (cgassef.schema.json, $defs): a stage config is one of
\* none, approximation and dynamic, each with exactly its own members
SchemaNone(config) ==
    /\ DOMAIN config = {"impactCalculationMode"}
    /\ config.impactCalculationMode = "none"
SchemaApproximation(config) ==
    /\ DOMAIN config = {"impactCalculationMode", "co2EqInKg"}
    /\ config.impactCalculationMode = "approximation"
    /\ "t" \in DOMAIN config.co2EqInKg
    /\ IsNum(config.co2EqInKg)
    /\ config.co2EqInKg.v >= 0
SchemaDynamic(config) ==
    /\ DOMAIN config = {"impactCalculationMode", "httpApiUrl", "token"}
    /\ config.impactCalculationMode = "dynamic"
    /\ config.token # ""
SchemaImpactConfig(config) ==
    SchemaNone(config) \/ SchemaApproximation(config) \/ SchemaDynamic(config)

\* C15: every record the wizard hands to the browser satisfies the record
\* schema: each stage config has exactly the members of its mode, every
\* approximation stage has co2EqInKg >= 0 and every dynamic stage a non-empty
\* token.
C15_ExportSatisfiesSchema ==
    wiz_download # NULL =>
        LET parsed == JSONParse(wiz_download.text)
        IN /\ parsed.ok
           /\ \A stageKey \in DOMAIN parsed.value.cycleStages :
                 SchemaImpactConfig(parsed.value.cycleStages[stageKey])

\* C16: every record the wizard hands to the browser is accepted by the
\* visualize, compare and export pages: it parses, and it passes the structure
\* check the three pages share.
C16_ExportAcceptedByPages ==
    wiz_download # NULL =>
        LET parsed == JSONParse(wiz_download.text)
        IN parsed.ok /\ ~InvalidStructure(parsed.value)

\* C21: on the visualize page the dynamic state has an entry for exactly the
\* stages of the active record that are in dynamic mode, after the simulation
\* effect has run and after every tick; no entry of a record loaded before
\* survives a record change, and the dynamic state is empty when no record is
\* loaded.
C21_DynamicStateMatchesRecord ==
    DOMAIN dynamicStageValues =
        IF vis_serviceData = NULL THEN {} ELSE DynamicStages(vis_serviceData)

\* a record with dynamic stages was active earlier in this mount (a timer was
\* started), and the record active now has no dynamic stage and no entry
C21_Witness ==
    /\ page = "visualize"
    /\ timerCount >= 1
    /\ dynamicStageValues = <<>>
    /\ vis_serviceData # NULL
    /\ DynamicStages(vis_serviceData) = {}

\* C22: a tick (the only step that counts ticks up) raises the simulated value
\* of every dynamic stage of the active record by a strictly positive amount,
\* adds and removes no entry, and leaves the charted value of every stage
\* that is not in dynamic mode as it was.
TickRaisesDynamicOnly ==
    page = "visualize" /\ ticks' = ticks + 1
        => /\ vis_serviceData' = vis_serviceData
           /\ DOMAIN dynamicStageValues' = DOMAIN dynamicStageValues
           /\ \A k \in DOMAIN dynamicStageValues :
                 dynamicStageValues'[k] > dynamicStageValues[k]
           /\ \A i \in DOMAIN detailedStageData :
                 detailedStageData[i].stage \notin DOMAIN dynamicStageValues
                    => \E j \in DOMAIN detailedStageData' :
                          /\ detailedStageData'[j].stage = detailedStageData[i].stage
                          /\ detailedStageData'[j].co2 = detailedStageData[i].co2
C22_TicksNeverDecrease == [][TickRaisesDynamicOnly]_vars

\* two ticks have fired for a record with a dynamic stage and an estimate
C22_Witness ==
    /\ page = "visualize"
    /\ ticks = 2
    /\ vis_serviceData # NULL
    /\ \E k \in DOMAIN dynamicStageValues : dynamicStageValues[k] = 69
    /\ \E i \in DOMAIN detailedStageData :
          detailedStageData[i].stage \notin DOMAIN dynamicStageValues

\* C23: in a stage's input form, switching the mode away from approximation
\* and back gives the co2EqInKg entered before, and switching away from
\* dynamic and back gives the httpApiUrl and token entered before: for every
\* stage input on screen, handleModeChange to another mode followed by
\* handleModeChange to the first mode hands back the config it started from.
C23_ModeRoundTripPreserves ==
    page = "create" =>
        \A stageKey \in RenderedStages(state) \cap EditedStages :
            LET config == state.cycleStages[stageKey]
                mode == config.impactCalculationMode
            IN mode \in {"approximation", "dynamic"} =>
                  \A other \in {"none", "approximation", "dynamic"} \ {mode} :
                      ModeChanged(ModeChanged(config, other), mode) = config

\* C24: a file read that completes with a text that parses loads it into the
\* wizard: the wizard stands on step 1 with isEditing true, serviceId, name,
\* description and cycleStages are those of the file, and includeHardware is
\* true if and only if at least one of the four hardware stages of the file
\* has a mode other than none.  (A text that does not parse changes nothing;
\* leaving the page drops the reads that are still suspended.)
LoadsConfig ==
    page = "create" /\ page' \in {"create", "crashed"} /\ Len(wiz_reads') < Len(wiz_reads)
        => \E i \in DOMAIN wiz_reads :
              /\ wiz_reads' = RemoveAt(wiz_reads, i)
              /\ LET text == FileText[wiz_reads[i]]
                 IN IF text.parses
                    THEN /\ page' = "create"
                         /\ state'.currentStep = 1
                         /\ state'.isEditing = TRUE
                         /\ state'.serviceId = text.value.serviceId
                         /\ state'.name = text.value.name
                         /\ state'.description = text.value.description
                         /\ state'.cycleStages = text.value.cycleStages
                         /\ state'.includeHardware =
                               Bool(\E k \in Range(hardwareCycleKeys) :
                                       /\ k \in DOMAIN text.value.cycleStages
                                       /\ text.value.cycleStages[k].impactCalculationMode # "none")
                         /\ state'.defaultFilename = state.defaultFilename
                    ELSE state' = state /\ page' = page
C24_LoadConfig == [][LoadsConfig]_vars

\* a file without hardware stages has been loaded: the wizard stands on step 1,
\* editing, with hardware not included
C24_Witness ==
    /\ page = "create"
    /\ state.isEditing
    /\ state.currentStep = 1
    /\ state.name = "Beta (partial)"
    /\ state.includeHardware = Bool(FALSE)

\* the serviceIds of the files of an upload that pass the structure check
UploadedIds(u) ==
    {FileText[u.files[i]].value.serviceId :
        i \in {j \in DOMAIN u.files : ~Failing(u.files[j])}}

\* C25: on the compare page, the completion of an upload does not undo an edit
\* made while its files were being read: the services after the completion
\* are services that were there just before it or services of the uploaded
\* files (a service removed during the read stays removed), and every service
\* that had a count just before the completion keeps that count (a count
\* edited during the read keeps its edited value).
UploadKeepsEdits ==
    page = "compare" /\ page' = "compare" /\ Len(uploads') < Len(uploads)
        => \E n \in DOMAIN uploads :
              /\ uploads' = RemoveAt(uploads, n)
              /\ \A j \in DOMAIN uploadedServices' :
                    \/ uploadedServices'[j].serviceId \in UploadedIds(uploads[n])
                    \/ \E i \in DOMAIN uploadedServices :
                          uploadedServices[i].serviceId = uploadedServices'[j].serviceId
              /\ \A id \in DOMAIN inferenceCounts :
                    id \in DOMAIN inferenceCounts' /\ inferenceCounts'[id] = inferenceCounts[id]
C25_EditsSurviveUpload == [][UploadKeepsEdits]_vars

\* C26: when the user has opted out of hardware stages (includeHardware is
\* false on the export step), all four hardware stages of the record the
\* wizard hands to the browser are in none mode, whatever was configured or
\* loaded for them earlier.
C26_OptOutClearsHardware ==
    wiz_download # NULL /\ state.includeHardware = Bool(FALSE) =>
        LET parsed == JSONParse(wiz_download.text)
        IN /\ parsed.ok
           /\ \A k \in Range(hardwareCycleKeys) \cap DOMAIN parsed.value.cycleStages :
                 parsed.value.cycleStages[k].impactCalculationMode = "none"

\* C27: on the visualize page, once every file read has completed, the active
\* record is the record of the file selected last (the file the file input
\* holds), whatever order the reads completed in: after selecting file A and
\* then file B, the active record is B's.
C27_LastSelectedWins ==
    page = "visualize" /\ vis_reads = <<>> /\ Len(vis_selected) = 1
        => LET f == vis_selected[1]
           IN ~Failing(f) => vis_serviceData = FileText[f].value

\* no two records of the sequence have the same serviceId
UniqueIds(services) ==
    \A i, j \in DOMAIN services :
        i # j => services[i].serviceId # services[j].serviceId

\* the completion of an upload keeps the place of every service of the
\* upload's map (a file whose serviceId is present replaces the record there)
\* and adds new services behind them
UploadKeepsPositions ==
    page = "compare" /\ page' = "compare" /\ Len(uploads') < Len(uploads)
        => \E n \in DOMAIN uploads :
              LET map == uploads[n].currentServicesMap
              IN /\ uploads' = RemoveAt(uploads, n)
                 /\ Len(uploadedServices') >= Len(map)
                 /\ \A j \in DOMAIN map :
                       uploadedServices'[j].serviceId = map[j].serviceId

\* C28: after any sequence of uploads and removals on the compare page,
\* uploadedServices never holds two records with the same serviceId (nor does
\* the map of an upload in progress): an uploaded file whose serviceId is
\* present replaces that record at its position instead of adding an entry.
C28_UniqueServiceIds ==
    /\ [](/\ UniqueIds(uploadedServices)
          /\ \A n \in DOMAIN uploads : UniqueIds(uploads[n].currentServicesMap))
    /\ [][UploadKeepsPositions]_vars

\* after two uploads the hand-edited record of svcA stands at position 1,
\* before svcB
C28_Witness ==
    /\ page = "compare"
    /\ cmp_events = 2
    /\ uploads = <<>>
    /\ Len(uploadedServices) = 2
    /\ uploadedServices[1] = RecA2
    /\ uploadedServices[2].serviceId = "svcB"

\* the serviceIds with a stored inference count are those of uploadedServices
CountsMatchServices ==
    page = "compare" /\ uploads = <<>>
        => DOMAIN inferenceCounts =
              {uploadedServices[j].serviceId : j \in DOMAIN uploadedServices}

\* the completion of an upload keeps the count of every service of its files
\* that is present with a count
ReuploadKeepsCount ==
    page = "compare" /\ page' = "compare" /\ Len(uploads') < Len(uploads)
        => \E n \in DOMAIN uploads :
              /\ uploads' = RemoveAt(uploads, n)
              /\ \A id \in UploadedIds(uploads[n]) \cap DOMAIN inferenceCounts :
                    /\ \E j \in DOMAIN uploadedServices : uploadedServices[j].serviceId = id
                    => inferenceCounts'[id] = inferenceCounts[id]

\* C29: after any completed sequence of uploads, removals and count edits on
\* the compare page, the serviceIds that have a stored inference count are
\* exactly the serviceIds of uploadedServices (removing a service deletes its
\* count), and uploading a service that is already present keeps the count
\* configured for it.
C29_CountsFollowServices == []CountsMatchServices /\ [][ReuploadKeepsCount]_vars

\* C30: currentStep never leaves the range 0..4, and from any wizard state
\* with currentStep >= 1, pressing nothing but the forward button (Next, then
\* Next: Save Impact Data) ends on the export step 4: a behaviour that from
\* some point on consists of forward presses only comes to rest on step 4
\* unless it rests on step 0 or outside the wizard.
StepInRange == state.currentStep \in 0..4
RestsOnExport ==
    page \in {"create", "crashed"} /\ state.currentStep >= 1 => state.currentStep = 4
C30_ForwardReachesExport ==
    /\ []StepInRange
    /\ (<>[][ForwardButton]_vars => <>[]RestsOnExport)

====
